---------------------------- MODULE Spec2Model ----------------------------
(***************************************************************************)
(* A model of the sqlalchemy_timestream dialect: the type compiler, the    *)
(* construction of the JDBC connect arguments, the column reflection, the  *)
(* disconnect check and the constraint reflection stubs.                   *)
(*                                                                         *)
(* A Python str is a TLA+ string, and split, substring tests, formatting   *)
(* and the column-type pattern are computed on its characters as the code  *)
(* computes them.  A Python value a handler returns or stores is a record  *)
(* tagged with its type (py), so that None, a str, an exception object and *)
(* a list stay distinct values.                                            *)
(***************************************************************************)
EXTENDS Integers, Sequences, FiniteSets, TLC

VARIABLES
    call,      \* the finished call the caller has not yet taken, or NoCall
    executed   \* the number of statements the connection has executed

vars == <<call, executed>>

---------------------------------------------------------------------------
(* Bounds of the model. *)

\* the largest length a type descriptor carries
MaxLength == 3
\* the most properties a connection string holds
MaxProps == 2
\* the most rows a DESCRIBE result holds
MaxRows == 2
\* the most statements a connection executes
MaxExecuted == 2

---------------------------------------------------------------------------
(* Python values and str operations. *)

PyNone == [py |-> "NoneType"]

PyStr(s) == [py |-> "str", s |-> s]

PyBool(b) == [py |-> "bool", b |-> b]

PyList(items) == [py |-> "list", items |-> items]

\* an exception object of class type with message msg
PyException(type, msg) == [py |-> type, msg |-> msg]

\* bool(v) of a str or None
Truthy(v) == v.py = "str" /\ v.s # ""

\* sub in s
Contains(sub, s) ==
    \E i \in 0..(Len(s) - Len(sub)) : SubSeq(s, i + 1, i + Len(sub)) = sub

\* s.find(sub): the least index (from 0) where sub occurs in s, or -1
Find(sub, s) ==
    IF Contains(sub, s)
    THEN CHOOSE i \in 0..(Len(s) - Len(sub)) :
            /\ SubSeq(s, i + 1, i + Len(sub)) = sub
            /\ \A j \in 0..(i - 1) : SubSeq(s, j + 1, j + Len(sub)) # sub
    ELSE -1

\* s.split(sep): every piece between occurrences of sep, empty pieces kept
RECURSIVE Split(_, _)
Split(s, sep) ==
    LET i == Find(sep, s)
    IN  IF i = -1 THEN <<s>>
        ELSE <<SubSeq(s, 1, i)>> \o Split(SubSeq(s, i + Len(sep) + 1, Len(s)), sep)

\* s.split(sep, 1): at most one split, at the first occurrence of sep
SplitOnce(s, sep) ==
    LET i == Find(sep, s)
    IN  IF i = -1 THEN <<s>>
        ELSE <<SubSeq(s, 1, i), SubSeq(s, i + Len(sep) + 1, Len(s))>>

\* seq[-1]
Last(seq) == seq[Len(seq)]

\* sep.join(parts)
RECURSIVE Join(_, _)
Join(parts, sep) ==
    IF parts = <<>> THEN ""
    ELSE IF Len(parts) = 1 THEN parts[1]
    ELSE parts[1] \o sep \o Join(Tail(parts), sep)

Digits == <<"0", "1", "2", "3", "4", "5", "6", "7", "8", "9">>

\* "%d" % n for n >= 0
RECURSIVE IntToStr(_)
IntToStr(n) ==
    IF n < 10 THEN Digits[n + 1]
    ELSE IntToStr(n \div 10) \o Digits[(n % 10) + 1]

\* a dict: d.get(k) and d[k] = v
Get(d, k) == IF k \in DOMAIN d THEN d[k] ELSE PyNone

Put(d, k, v) == [x \in DOMAIN d \cup {k} |-> IF x = k THEN v ELSE d[x]]

EmptyDict == [x \in {} |-> PyNone]

\* the outcome of a handler: a returned value or a raised exception, with the
\* statements it sent to the connection, the role ARNs it passed to STS and
\* the environment variables it read
NoError == [py |-> "(no exception)"]

NoValue == [py |-> "(no value)"]

Returns(v) ==
    [outcome |-> "return", value |-> v, error |-> NoError,
     queries |-> <<>>, sts |-> <<>>, getenv |-> {}]

Raises(type, msg) ==
    [outcome |-> "raise", value |-> NoValue, error |-> PyException(type, msg),
     queries |-> <<>>, sts |-> <<>>, getenv |-> {}]

---------------------------------------------------------------------------
(* TimestreamTypeCompiler *)

\* the types the compiler renders with a keyword
SupportedTypes ==
    { "INTEGER", "BIGINT", "BOOLEAN", "REAL", "VARCHAR", "DATE", "TIME",
      "TIMESTAMP", "DATETIME", "INTERVAL", "TIMESERIES", "UNKNOWN", "ARRAY" }

\* the types whose visit method builds a CompileError
UnsupportedTypes ==
    { "CLOB", "NCLOB", "CHAR", "NCHAR", "NVARCHAR", "TEXT", "BLOB", "BINARY",
      "VARBINARY" }

\* a type descriptor: its visit name and its length (0: no length given)
TypeDescriptors ==
    [name : SupportedTypes \cup UnsupportedTypes, length : 0..MaxLength]

\* str(type_): the type's name, with its length when it has one
TypeStr(type_) ==
    IF type_.length # 0
    THEN type_.name \o "(" \o IntToStr(type_.length) \o ")"
    ELSE type_.name

\* GenericTypeCompiler._render_string_type, as visit_VARCHAR calls it
\* (a type without collation)
render_string_type(type_, name) ==
    IF type_.length # 0
    THEN name \o "(" \o IntToStr(type_.length) \o ")"
    ELSE name

\* the backquote of the message; SANY's lexer takes no backquote in a string,
\* and the apostrophe stands for it
Backquote == "'"

\* exc.CompileError("Data type `{0}` is not supported".format(type_)):
\* the exception object
CompileError(type_) ==
    PyException("CompileError",
                "Data type " \o Backquote \o TypeStr(type_) \o Backquote
                \o " is not supported")

\* visit_CLOB .. visit_VARBINARY: each builds the CompileError and returns it
visit_unsupported(type_) == Returns(CompileError(type_))

visit_TIMESTAMP(type_) == Returns(PyStr("TIMESTAMP"))

\* visit_INTEGER .. visit_ARRAY
visit_supported(type_) ==
    CASE type_.name = "INTEGER" -> Returns(PyStr("INTEGER"))
      [] type_.name = "BIGINT" -> Returns(PyStr("BIGINT"))
      [] type_.name = "BOOLEAN" -> Returns(PyStr("BOOLEAN"))
      [] type_.name = "REAL" -> Returns(PyStr("DOUBLE"))
      [] type_.name = "VARCHAR" -> Returns(PyStr(render_string_type(type_, "VARCHAR")))
      [] type_.name = "DATE" -> Returns(PyStr("DATE"))
      [] type_.name = "TIME" -> Returns(PyStr("TIME"))
      [] type_.name = "TIMESTAMP" -> visit_TIMESTAMP(type_)
      [] type_.name = "DATETIME" -> visit_TIMESTAMP(type_)
      [] type_.name = "INTERVAL" -> Returns(PyStr("STRING"))
      [] type_.name = "TIMESERIES" -> Returns(PyStr("STRING"))
      [] type_.name = "UNKNOWN" -> Returns(PyStr("NULL"))
      [] type_.name = "ARRAY" -> Returns(PyStr("ARRAY"))

\* the type compiler renders type_: the visit method of its name runs
process(type_) ==
    IF type_.name \in UnsupportedTypes
    THEN visit_unsupported(type_)
    ELSE visit_supported(type_)

---------------------------------------------------------------------------
(* TimestreamJDBCDialect: the connect arguments *)

jdbc_driver_name == "software.amazon.timestream.jdbc.TimestreamDriver"

jdbc_driver_version == "2.0.0"

\* "amazon-timestream-jdbc-{}-shaded.jar".format(jdbc_driver_version)
jdbc_jar_name == "amazon-timestream-jdbc-" \o jdbc_driver_version \o "-shaded.jar"

\* the value of str(url) for a connection string of semicolon-delimited
\* properties, the grammar create_connect_args reads
PropertyUrl(props) == "jdbcapi+timestream://" \o Join(props, ";")

\* the value of str(url) for a URL of the shape of the test's: a host that
\* names the region, a database and query parameters
HostUrl(region, query) ==
    "jdbcapi+timestream://@timestream." \o region \o ".amazonaws.com/test?" \o query

\* the properties a connection string is made of
PropertyPool ==
    { "Region=ap-southeast-2", "RoleArn=arn:aws:iam::1:role/r",
      "DriverPath=/opt/driver.jar", "DriverPath=", "AccessKeyId=AKIA",
      "use_instance_profile=true", "bogus" }

\* the query strings of the URLs of the test's shape; the first is the test's
QueryPool ==
    { "application_name=superset&instance_profile=true&role_arn=arn%3Aaws%3Aiam%3A%3A296723344747%3Arole%2Fch-superset",
      "use_instance_profile=true" }

RECURSIVE SeqsUpTo(_, _)
SeqsUpTo(S, n) ==
    IF n = 0 THEN {<<>>}
    ELSE LET shorter == SeqsUpTo(S, n - 1)
         IN  shorter \cup {Append(q, x) : q \in shorter, x \in S}

\* the url argument: None, or a URL object with its str() value
Urls ==
    {PyNone}
    \cup {PyStr(PropertyUrl(props)) : props \in SeqsUpTo(PropertyPool, MaxProps)}
    \cup {PyStr(HostUrl("ap-southeast-2", q)) : q \in QueryPool}

\* the process environment: each variable is a str, or None when unset
Envs ==
    [CLASSPATH : {PyNone, PyStr(""), PyStr("/opt/other.jar"),
                  PyStr("/opt/other.jar:/opt/lib/" \o jdbc_jar_name
                        \o ":/usr/lib/" \o jdbc_jar_name)},
     AWS_DEFAULT_REGION : {PyNone, PyStr("us-east-1")}]

\* what boto3's assume_role answers: the temporary credentials, or an error
StsResponses ==
    { [ok |-> TRUE,
       Credentials |-> [AccessKeyId |-> "ASIATEMP", SecretAccessKey |-> "tempsecret",
                        SessionToken |-> "temptoken"],
       error |-> NoError],
      [ok |-> FALSE,
       Credentials |-> [AccessKeyId |-> "", SecretAccessKey |-> "", SessionToken |-> ""],
       error |-> PyException("ClientError", "AccessDenied")] }

\* _get_assumed_role_credentials with the error of assume_role caught and
\* empty credentials returned in its place
assumed_role_credentials_swallowing(role_arn, region, sts) ==
    IF sts.ok
    THEN Returns([py |-> "tuple",
                  items |-> <<PyStr(sts.Credentials.AccessKeyId),
                              PyStr(sts.Credentials.SecretAccessKey),
                              PyStr(sts.Credentials.SessionToken)>>])
    ELSE Returns([py |-> "tuple", items |-> <<PyNone, PyNone, PyNone>>])

\* _get_assumed_role_credentials: the three credentials of the response, or
\* the error of the assume_role call
get_assumed_role_credentials(role_arn, region, sts) ==
    IF sts.ok
    THEN Returns([py |-> "tuple",
                  items |-> <<PyStr(sts.Credentials.AccessKeyId),
                              PyStr(sts.Credentials.SecretAccessKey),
                              PyStr(sts.Credentials.SessionToken)>>])
    ELSE Raises(sts.error.py, sts.error.msg)

\* the loop of _find_jar_path_in_class_path without its return at the first
\* match: the last path holding the jar name
RECURSIVE last_path_with_jar(_)
last_path_with_jar(paths) ==
    IF paths = <<>> THEN PyNone
    ELSE IF Contains(jdbc_jar_name, Last(paths)) THEN PyStr(Last(paths))
    ELSE last_path_with_jar(SubSeq(paths, 1, Len(paths) - 1))

\* the loop of _find_jar_path_in_class_path: the first path holding the jar
\* name; the function ends without a return (None) when no path holds it
RECURSIVE first_path_with_jar(_)
first_path_with_jar(paths) ==
    IF paths = <<>> THEN PyNone
    ELSE IF Contains(jdbc_jar_name, Head(paths)) THEN PyStr(Head(paths))
    ELSE first_path_with_jar(Tail(paths))

MissingJarMessage ==
    "JDBC driver JAR path is not found in CLASSPATH environment variable. Please set "
    \o "the driver path in the aforementioned environment variable or in the property "
    \o "DriverPath of the connection string"

\* _find_jar_path_in_class_path; the except clause raises Exception(str(e))
find_jar_path_in_class_path(env) ==
    LET class_path == env.CLASSPATH
    IN  IF class_path = PyNone
        THEN Raises("Exception", MissingJarMessage)
        ELSE Returns(first_path_with_jar(Split(class_path.s, ":")))

\* the loop over the properties: k, v = prop.split("=")[0], prop.split("=")[1];
\* driver_args[k] = v.  A property without "=" has no [1]: IndexError.
RECURSIVE parse_properties(_, _)
parse_properties(properties, driver_args) ==
    IF properties = <<>> THEN [raised |-> FALSE, driver_args |-> driver_args]
    ELSE LET kv == Split(Head(properties), "=")
         IN  IF Len(kv) < 2
             THEN [raised |-> TRUE, driver_args |-> driver_args]
             ELSE parse_properties(Tail(properties),
                                   Put(driver_args, kv[1], PyStr(kv[2])))

\* create_connect_args, from the properties on: the region, the assumed
\* role, the driver jar and the result
connect_args_of(driver_args, env, sts) ==
    LET noRegion == ~Truthy(Get(driver_args, "Region"))
        d1 == IF noRegion
              THEN Put(driver_args, "Region", env.AWS_DEFAULT_REGION)
              ELSE driver_args
        read1 == IF noRegion THEN {"AWS_DEFAULT_REGION"} ELSE {}
        assume == Truthy(Get(d1, "RoleArn"))
        asked == IF assume THEN <<Get(d1, "RoleArn").s>> ELSE <<>>
        creds == get_assumed_role_credentials(Get(d1, "RoleArn"), Get(d1, "Region"), sts)
    IN  IF assume /\ creds.outcome = "raise"
        THEN [creds EXCEPT !.sts = asked, !.getenv = read1]
        ELSE
    LET d2 == IF assume
              THEN Put(Put(Put(d1, "AccessKeyId", creds.value.items[1]),
                           "SecretAccessKey", creds.value.items[2]),
                       "SessionToken", creds.value.items[3])
              ELSE d1
        explicit == Truthy(Get(d2, "DriverPath"))
        found == find_jar_path_in_class_path(env)
        read2 == IF explicit THEN read1 ELSE read1 \cup {"CLASSPATH"}
    IN  IF ~explicit /\ found.outcome = "raise"
        THEN [found EXCEPT !.sts = asked, !.getenv = read2]
        ELSE
    LET driver_jar_path == IF explicit THEN Get(d2, "DriverPath") ELSE found.value
    IN  [Returns([py |-> "tuple",
                  args |-> <<>>,
                  kwargs |-> [jclassname |-> jdbc_driver_name,
                              url |-> "jdbc:timestream://",
                              driver_args |-> d2,
                              jars |-> driver_jar_path]])
         EXCEPT !.sts = asked, !.getenv = read2]

\* create_connect_args
create_connect_args(url, env, sts) ==
    IF url = PyNone THEN Returns(PyNone)
    ELSE LET s == url.s
             properties == Split(Last(SplitOnce(s, "//")), ";")
             parsed == parse_properties(properties, EmptyDict)
         IN  IF parsed.raised
             THEN Raises("IndexError", "list index out of range")
             ELSE connect_args_of(parsed.driver_args, env, sts)

---------------------------------------------------------------------------
(* TimestreamJDBCDialect: reflection *)

\* _TYPE_MAPPINGS: the store's type names and the toolkit's types
TYPE_MAPPINGS ==
    "boolean" :> "BOOLEAN" @@ "double" :> "FLOAT" @@ "integer" :> "INTEGER"
    @@ "bigint" :> "BIGINT" @@ "varchar" :> "STRINGTYPE" @@ "array" :> "STRINGTYPE"
    @@ "row" :> "STRINGTYPE" @@ "date" :> "DATE" @@ "time" :> "TIMESTAMP"
    @@ "timestamp" :> "TIMESTAMP" @@ "interval" :> "STRINGTYPE"
    @@ "timeseries" :> "STRINGTYPE" @@ "unknown" :> "NULLTYPE"

NULLTYPE == "NULLTYPE"

\* the characters [a-zA-Z] of the pattern
Letters ==
    { "a", "b", "c", "d", "e", "f", "g", "h", "i", "j", "k", "l", "m", "n", "o",
      "p", "q", "r", "s", "t", "u", "v", "w", "x", "y", "z", "A", "B", "C", "D",
      "E", "F", "G", "H", "I", "J", "K", "L", "M", "N", "O", "P", "Q", "R", "S",
      "T", "U", "V", "W", "X", "Y", "Z" }

\* the length of the longest prefix of s made of letters
RECURSIVE LetterRun(_)
LetterRun(s) ==
    IF s # "" /\ SubSeq(s, 1, 1) \in Letters
    THEN 1 + LetterRun(SubSeq(s, 2, Len(s)))
    ELSE 0

\* _get_column_type without the substitution
column_type_unstripped(type_) == type_

\* _get_column_type: _pattern_column_type.sub(r"\1", type_) with the pattern
\* ^([a-zA-Z]+)($|\(.+\)$).  The pattern matches letters followed by the end
\* or by "(", one character or more (none a newline) and ")" at the end, where
\* the end is also the place before a last newline; the match is replaced by
\* its letters, and a string that does not match is returned as it is.
get_column_type(type_) ==
    LET n == LetterRun(type_)
        newline == Len(type_) > n /\ SubSeq(type_, Len(type_), Len(type_)) = "\n"
        last == IF newline THEN Len(type_) - 1 ELSE Len(type_)
        suffix == SubSeq(type_, n + 1, last)
        matches ==
            /\ n >= 1
            /\ \/ suffix = ""
               \/ /\ Len(suffix) >= 3
                  /\ SubSeq(suffix, 1, 1) = "("
                  /\ SubSeq(suffix, Len(suffix), Len(suffix)) = ")"
                  /\ ~Contains("\n", suffix)
    IN  IF matches
        THEN SubSeq(type_, 1, n) \o SubSeq(type_, last + 1, Len(type_))
        ELSE type_

\* the dictionary get_columns builds of one row
column_of(row) ==
    [name |-> row.column_name,
     type |-> IF get_column_type(row.data_type) \in DOMAIN TYPE_MAPPINGS
              THEN TYPE_MAPPINGS[get_column_type(row.data_type)]
              ELSE NULLTYPE,
     nullable |-> IF row.is_nullable = "YES" THEN TRUE ELSE FALSE,
     default |-> row.column_default,
     ordinal_position |-> row.ordinal_position,
     comment |-> row.comment]

\* the store's type names a DESCRIBE row carries, with whether it is nullable
RowKinds ==
    [data_type : {"varchar", "varchar(256)", "VARCHAR(2)", "varchar()", "time(3)",
                  "row(a integer)", "decimal(10,2)", "bigint"},
     is_nullable : {"YES", "NO"}]

\* the rows DESCRIBE answers for a choice of kinds, one column each, in order
RowsOf(kinds) ==
    [i \in 1..Len(kinds) |->
        [column_name |-> "col" \o IntToStr(i),
         data_type |-> kinds[i].data_type,
         is_nullable |-> kinds[i].is_nullable,
         column_default |-> PyNone,
         ordinal_position |-> i,
         comment |-> PyNone]]

\* what connection.execute(query).fetchall() answers: rows, or the bridge's error
QueryResults ==
    {[ok |-> TRUE, rows |-> RowsOf(kinds), error |-> NoError] :
        kinds \in SeqsUpTo(RowKinds, MaxRows)}
    \cup {[ok |-> FALSE, rows |-> <<>>,
           error |-> PyException("DatabaseError", "connection is closed")]}

\* the connections: the schema name of the raw connection
Connections == {[schema_name |-> "test"]}

TableNames == {"IoTMulti", "DevOps"}

Schemas == {PyNone, PyStr("sampleDB")}

\* get_columns, called without an info_cache (reflection.cache then calls the
\* method itself)
get_columns(connection, table_name, schema, result) ==
    LET schema_ == IF Truthy(schema) THEN schema.s ELSE connection.schema_name
        query == "\n                DESCRIBE " \o schema_ \o "." \o table_name
                 \o "\n                "
    IN  IF result.ok
        THEN [Returns(PyList([i \in 1..Len(result.rows) |-> column_of(result.rows[i])]))
              EXCEPT !.queries = <<query>>]
        ELSE [Raises(result.error.py, result.error.msg) EXCEPT !.queries = <<query>>]

\* get_foreign_keys
get_foreign_keys(connection, table_name, schema) == Returns(PyList(<<>>))

\* get_pk_constraint
get_pk_constraint(connection, table_name, schema) == Returns(PyList(<<>>))

\* get_indexes asking the store for its indexes
get_indexes_querying(connection, table_name, schema) ==
    [Returns(PyList(<<>>)) EXCEPT !.queries = <<"SHOW INDEXES">>]

\* get_indexes
get_indexes(connection, table_name, schema) == Returns(PyList(<<>>))

---------------------------------------------------------------------------
(* BaseDialect *)

\* the attributes of the bound method object self.import_dbapi
MethodAttributes == {"__func__", "__self__", "__name__", "__qualname__", "__doc__"}

\* the bridge's errors: the class of the exception and its text
BridgeErrors ==
    [class : {"ProgrammingError", "OperationalError", "Exception"},
     text : {"connection is closed", "The cursor is closed.", "syntax error"}]

\* is_disconnect: self.import_dbapi is the classmethod, not the module it
\* returns when called, and the test reads its attribute ProgrammingError
is_disconnect(e) ==
    IF "ProgrammingError" \notin MethodAttributes
    THEN Raises("AttributeError",
                "'function' object has no attribute 'ProgrammingError'")
    ELSE IF e.class # "ProgrammingError"
    THEN Returns(PyBool(FALSE))
    ELSE Returns(PyBool(Contains("connection is closed", e.text)
                        \/ Contains("cursor is closed", e.text)))

---------------------------------------------------------------------------
(* The calls. *)

NoCall == [op |-> "none"]

Finished(op, args, r) ==
    [op |-> op, args |-> args, outcome |-> r.outcome, value |-> r.value,
     error |-> r.error, queries |-> r.queries, sts |-> r.sts, getenv |-> r.getenv]

Init ==
    /\ call = NoCall
    /\ executed = 0

\* the host toolkit asks the type compiler to render a type
Process ==
    /\ call = NoCall
    /\ \E type_ \in TypeDescriptors :
          call' = Finished("process", [type_ |-> type_], process(type_))
    /\ UNCHANGED executed

\* the engine builds the connect arguments of a URL
CreateConnectArgs ==
    /\ call = NoCall
    /\ \E url \in Urls, env \in Envs, sts \in StsResponses :
          call' = Finished("create_connect_args",
                           [url |-> url, env |-> env, sts |-> sts],
                           create_connect_args(url, env, sts))
    /\ UNCHANGED executed

\* the inspector describes the columns of a table: one statement is executed
GetColumns ==
    /\ call = NoCall
    /\ executed < MaxExecuted
    /\ \E connection \in Connections, table_name \in TableNames,
          schema \in Schemas, result \in QueryResults :
          LET r == get_columns(connection, table_name, schema, result)
          IN  /\ call' = Finished("get_columns",
                                  [connection |-> connection, table_name |-> table_name,
                                   schema |-> schema, result |-> result], r)
              /\ executed' = executed + Len(r.queries)

\* the inspector asks for the foreign keys of a table
GetForeignKeys ==
    /\ call = NoCall
    /\ \E connection \in Connections, table_name \in TableNames, schema \in Schemas :
          LET r == get_foreign_keys(connection, table_name, schema)
          IN  /\ call' = Finished("get_foreign_keys",
                                  [connection |-> connection, table_name |-> table_name,
                                   schema |-> schema], r)
              /\ executed' = executed + Len(r.queries)

\* the inspector asks for the primary key of a table
GetPkConstraint ==
    /\ call = NoCall
    /\ \E connection \in Connections, table_name \in TableNames, schema \in Schemas :
          LET r == get_pk_constraint(connection, table_name, schema)
          IN  /\ call' = Finished("get_pk_constraint",
                                  [connection |-> connection, table_name |-> table_name,
                                   schema |-> schema], r)
              /\ executed' = executed + Len(r.queries)

\* the inspector asks for the indexes of a table
GetIndexes ==
    /\ call = NoCall
    /\ \E connection \in Connections, table_name \in TableNames, schema \in Schemas :
          LET r == get_indexes(connection, table_name, schema)
          IN  /\ call' = Finished("get_indexes",
                                  [connection |-> connection, table_name |-> table_name,
                                   schema |-> schema], r)
              /\ executed' = executed + Len(r.queries)

\* the engine asks whether an error of the bridge is a disconnect
IsDisconnect ==
    /\ call = NoCall
    /\ \E e \in BridgeErrors :
          call' = Finished("is_disconnect", [e |-> e], is_disconnect(e))
    /\ UNCHANGED executed

\* the caller takes the finished call's result; the dialect keeps nothing of it
TakeResult ==
    /\ call # NoCall
    /\ call' = NoCall
    /\ UNCHANGED executed

Next ==
    \/ Process
    \/ CreateConnectArgs
    \/ GetColumns
    \/ GetForeignKeys
    \/ GetPkConstraint
    \/ GetIndexes
    \/ IsDisconnect
    \/ TakeResult

Spec == Init /\ [][Next]_vars

---------------------------------------------------------------------------
(* What a connection URL says, read from its text: these state the claims *)
(* and take no part in the handlers.                                       *)

\* the value of the last property named key in a semicolon-delimited
\* connection string ("" when it has none)
RECURSIVE LastValueOf(_, _)
LastValueOf(props, key) ==
    IF props = <<>> THEN ""
    ELSE LET p == Last(props)
             n == Len(key) + 1
         IN  IF Len(p) >= n /\ SubSeq(p, 1, n) = key \o "="
             THEN SubSeq(p, n + 1, Len(p))
             ELSE LastValueOf(SubSeq(props, 1, Len(props) - 1), key)

GivenProperty(s, key) == LastValueOf(Split(Last(SplitOnce(s, "//")), ";"), key)

\* the host of a URL scheme://[user@]host[/database][?query]
UrlHost(s) ==
    LET rest == Last(SplitOnce(s, "//"))
        authority == Head(Split(Head(Split(rest, "?")), "/"))
    IN  Last(Split(authority, "@"))

\* the query parameters of a URL, as written (percent-encoded)
UrlQuery(s) ==
    LET parts == SplitOnce(Last(SplitOnce(s, "//")), "?")
    IN  IF Len(parts) = 2 THEN Split(parts[2], "&") ELSE <<>>

\* the regions and role ARNs the claims are stated for, with the ARN as a
\* query parameter carries it
ClaimRegions == {"ap-southeast-2", "us-east-1"}

ClaimRoleArns ==
    { [arn |-> "arn:aws:iam::296723344747:role/ch-superset",
       quoted |-> "arn%3Aaws%3Aiam%3A%3A296723344747%3Arole%2Fch-superset"],
      [arn |-> "arn:aws:iam::1:role/r", quoted |-> "arn%3Aaws%3Aiam%3A%3A1%3Arole%2Fr"] }

\* the URL carries the role ARN a: as the query parameter role_arn, or as the
\* property RoleArn
CarriesRoleArn(s, a) ==
    \/ \E i \in 1..Len(UrlQuery(s)) : UrlQuery(s)[i] = "role_arn=" \o a.quoted
    \/ GivenProperty(s, "RoleArn") = a.arn

\* the URL sets the use-instance-profile flag to "true"
SetsInstanceProfile(s) ==
    \/ \E i \in 1..Len(UrlQuery(s)) : UrlQuery(s)[i] = "use_instance_profile=true"
    \/ GivenProperty(s, "use_instance_profile") = "true"

\* the entries of the CLASSPATH variable that hold the jar name
ClassPathEntries(env) ==
    IF env.CLASSPATH = PyNone THEN <<>> ELSE Split(env.CLASSPATH.s, ":")

JarEntries(env) ==
    {i \in 1..Len(ClassPathEntries(env)) :
        Contains("amazon-timestream-jdbc-2.0.0-shaded.jar", ClassPathEntries(env)[i])}

ConnectCall == call.op = "create_connect_args" /\ call.args.url # PyNone

ConnectReturned == ConnectCall /\ call.outcome = "return"

---------------------------------------------------------------------------
(* The claims. *)

\* C1: for every unsupported type, rendering it raises the unsupported-type
\* error (CompileError) carrying the type's name; it never returns normally.
C1_UnsupportedTypeRaises ==
    (call.op = "process" /\ call.args.type_.name \in UnsupportedTypes)
        => /\ call.outcome = "raise"
           /\ call.error.py = "CompileError"
           /\ Contains(call.args.type_.name, call.error.msg)

\* C2: a create_connect_args call with no explicit driver path and no
\* CLASSPATH entry holding the jar name (CLASSPATH unset, or set without such
\* an entry) fails, and fails at the jar resolution with the missing-driver-jar
\* error; it never returns connect arguments.
C2_UnresolvedJarFails ==
    (/\ ConnectCall
     /\ GivenProperty(call.args.url.s, "DriverPath") = ""
     /\ JarEntries(call.args.env) = {})
        => /\ call.outcome = "raise"
           /\ ("CLASSPATH" \in call.getenv
                 => call.error = PyException("Exception", MissingJarMessage))

\* C3: for a URL whose host is timestream.<region>.amazonaws.com, the Region
\* entry of the returned property mapping is <region>, whatever
\* AWS_DEFAULT_REGION holds.
C3_RegionFromHost ==
    \A r \in ClaimRegions :
        (ConnectReturned
           /\ UrlHost(call.args.url.s) \in {"timestream." \o r \o ".amazonaws.com",
                                            "timestream." \o r \o ".amazonaws.com.cn"})
            => Get(call.value.kwargs.driver_args, "Region") = PyStr(r)

\* C4: a URL that carries a role ARN has role assumption invoked with that
\* ARN, and the returned AccessKeyId, SecretAccessKey and SessionToken are the
\* three values of the assumed-role response; a URL that carries none never
\* has role assumption invoked.
C4_RoleAssumed ==
    ConnectReturned =>
        /\ \A a \in ClaimRoleArns :
              CarriesRoleArn(call.args.url.s, a)
                => /\ call.sts = <<a.arn>>
                   /\ Get(call.value.kwargs.driver_args, "AccessKeyId")
                        = PyStr(call.args.sts.Credentials.AccessKeyId)
                   /\ Get(call.value.kwargs.driver_args, "SecretAccessKey")
                        = PyStr(call.args.sts.Credentials.SecretAccessKey)
                   /\ Get(call.value.kwargs.driver_args, "SessionToken")
                        = PyStr(call.args.sts.Credentials.SessionToken)
        /\ (\A a \in ClaimRoleArns : ~CarriesRoleArn(call.args.url.s, a))
              => call.sts = <<>>

\* C5: when the URL sets the use-instance-profile flag to "true" the returned
\* property mapping has an AwsCredentialsProviderClass entry; when the flag
\* is absent it has none.
C5_InstanceProfile ==
    ConnectReturned =>
        (SetsInstanceProfile(call.args.url.s)
           <=> "AwsCredentialsProviderClass" \in DOMAIN call.value.kwargs.driver_args)

\* C6: the jar path of the returned connect arguments is the explicit driver
\* path of the URL when that is non-empty, and CLASSPATH is then not read;
\* otherwise it is the first colon-separated CLASSPATH entry, in order, that
\* holds the jar name.
C6_JarPrecedence ==
    ConnectReturned =>
        LET given == GivenProperty(call.args.url.s, "DriverPath")
            entries == ClassPathEntries(call.args.env)
            jars == JarEntries(call.args.env)
        IN  IF given # ""
            THEN /\ call.value.kwargs.jars = PyStr(given)
                 /\ "CLASSPATH" \notin call.getenv
            ELSE jars # {}
                   => \E i \in jars :
                         /\ \A j \in jars : i <= j
                         /\ call.value.kwargs.jars = PyStr(entries[i])

\* C6's case: no explicit driver path, and a CLASSPATH whose first entry does
\* not hold the jar name and whose two later entries do
C6_Witness ==
    /\ ConnectReturned
    /\ GivenProperty(call.args.url.s, "DriverPath") = ""
    /\ JarEntries(call.args.env) = {2, 3}
    /\ call.value.kwargs.jars = PyStr(ClassPathEntries(call.args.env)[2])

\* C9: within one create_connect_args call role assumption is invoked at most
\* once, and when it fails the call raises that same error and returns no
\* connect arguments.
C9_RoleFailureAborts ==
    ConnectCall =>
        /\ Len(call.sts) <= 1
        /\ (call.sts # <<>> /\ ~call.args.sts.ok)
              => /\ call.outcome = "raise"
                 /\ call.error = call.args.sts.error
                 /\ call.value = NoValue

\* C9's case: role assumption was invoked and failed
C9_Witness ==
    /\ ConnectCall
    /\ call.sts # <<>>
    /\ ~call.args.sts.ok

\* the type the claim gives a store type name: the table's entry of the name
\* without a parenthesized size or precision ("(", at least one character,
\* ")") at its end, or the NULL type when the table has no such entry
ClaimedType(data_type) ==
    LET keys == {k \in DOMAIN TYPE_MAPPINGS :
                    \/ data_type = k
                    \/ /\ Len(data_type) >= Len(k) + 3
                       /\ SubSeq(data_type, 1, Len(k) + 1) = k \o "("
                       /\ SubSeq(data_type, Len(data_type), Len(data_type)) = ")"}
    IN  IF keys = {} THEN "NULLTYPE" ELSE TYPE_MAPPINGS[CHOOSE k \in keys : TRUE]

\* C7: get_columns gives every row of the describe query one column
\* descriptor, in row order, whose type is the Type Mapping Table's entry of
\* the store type name with its parenthesized suffix stripped, and the NULL
\* type when the table has no entry of the stripped name.
C7_ColumnTypes ==
    (call.op = "get_columns" /\ call.outcome = "return")
        => LET rows == call.args.result.rows
               columns == call.value.items
           IN  /\ Len(columns) = Len(rows)
               /\ \A i \in 1..Len(rows) :
                     /\ columns[i].name = rows[i].column_name
                     /\ columns[i].ordinal_position = rows[i].ordinal_position
                     /\ columns[i].type = ClaimedType(rows[i].data_type)

\* C7's case: a varchar(256) row, mapped to the string type, before a row of
\* a type the table does not hold, mapped to the NULL type
C7_Witness ==
    /\ call.op = "get_columns"
    /\ call.outcome = "return"
    /\ Len(call.args.result.rows) = 2
    /\ call.args.result.rows[1].data_type = "varchar(256)"
    /\ call.args.result.rows[2].data_type = "decimal(10,2)"
    /\ call.value.items[1].type = "STRINGTYPE"
    /\ call.value.items[2].type = "NULLTYPE"

\* C8: is_disconnect returns true for a bridge programming error whose text
\* holds "connection is closed" or "cursor is closed", and false for every
\* other error; it never raises.
C8_DisconnectClassifies ==
    call.op = "is_disconnect"
        => /\ call.outcome = "return"
           /\ call.value = PyBool(/\ call.args.e.class = "ProgrammingError"
                                  /\ \/ Contains("connection is closed", call.args.e.text)
                                     \/ Contains("cursor is closed", call.args.e.text))

\* C10: get_foreign_keys, get_pk_constraint and get_indexes return an empty
\* sequence for every connection, table and schema, after any earlier calls,
\* and send no statement to the connection.
C10_NoConstraints ==
    [][call'.op \in {"get_foreign_keys", "get_pk_constraint", "get_indexes"}
         => /\ call'.outcome = "return"
            /\ call'.value = PyList(<<>>)
            /\ call'.queries = <<>>
            /\ executed' = executed]_vars

\* C10's case: one of the three is called on a connection that has executed
\* statements of earlier calls
C10_Witness ==
    /\ call.op \in {"get_foreign_keys", "get_pk_constraint", "get_indexes"}
    /\ call.outcome = "return"
    /\ executed > 0

===========================================================================
